---- MODULE Spec2Model ----
(***************************************************************************)
(* Model of modules/ocr/ocr_lens.py (class OCRLensAPI): the text           *)
(* normalizer (_apply_punctuation_and_spacing, _apply_no_uppercase), the   *)
(* rate limiter (_respect_delay), the dispatcher (ocr, ocr_img) and the    *)
(* block pipeline (_ocr_blk_list).                                         *)
(*                                                                         *)
(* A Python str is a sequence of one-character strings.  U+2026 is written *)
(* Ellipsis.  Wall-clock time is an integer number of ticks; one tick is   *)
(* the timing tolerance, so straight-line local computation takes no       *)
(* ticks while sleeping, waiting for the recognizer and idling do.         *)
(***************************************************************************)
EXTENDS Naturals, Integers, Sequences, FiniteSets

VARIABLES
    input,              \* normalizer: the string handed in
    prev,               \* normalizer: the string before the last transform
    txt,                \* normalizer: the current string
    op,                 \* normalizer: the last transform applied
    params,             \* self.params: delay, newline_handling, no_uppercase
    last_request_time,  \* self.last_request_time
    now,                \* what time.time() reads
    calls,              \* the recognizer's log of process_image calls
    pc,                 \* per thread: where it is
    frame,              \* per thread: the public operation it is inside
    img,                \* per thread: img.size of the image given to ocr
    current_time,       \* per thread: the local of line 155
    seen,               \* per thread: last_request_time as read on line 156
    wake,               \* per thread: when its time.sleep ends (0: did not sleep)
    result,             \* per thread: what encoding and process_image gave
    ret,                \* per thread: what ocr returned
    escaped,            \* per thread: an exception left the public operation
    n_blk,              \* len(blk_list)
    idx,                \* the position of the for loop of line 63
    xyxy,               \* blk.xyxy of the block the loop is at
    blk_text,           \* blk.text of every block of blk_list
    n_ops,              \* public operations started so far
    use_lock,           \* the callers serialize _respect_delay with a mutex
    mutex               \* the thread holding that mutex, 0 when free

textvars == <<input, prev, txt, op>>

dispvars == <<params, last_request_time, now, calls, pc, frame, img,
              current_time, seen, wake, result, ret, escaped>>

blkvars == <<n_blk, idx, xyxy, blk_text>>

vars == <<textvars, dispvars, blkvars, n_ops, use_lock, mutex>>

-----------------------------------------------------------------------------
(* Bounds *)

MaxLen == 4

\* the largest configured delay, in ticks
MaxDelay == 2

\* how many ticks the clock advances
MaxTicks == 3

\* how many public operations the callers start
MaxOps == 2

\* the longest blk_list
MaxBlocks == 2

\* the image is ImH pixels high and ImH + 1 wide
ImH == 3

ImW == ImH + 1

-----------------------------------------------------------------------------
(* Characters *)

Ellipsis == "U+2026"

Lowers ==
    <<"a", "b", "c", "d", "e", "f", "g", "h", "i", "j", "k", "l", "m", "n",
      "o", "p", "q", "r", "s", "t", "u", "v", "w", "x", "y", "z">>

Uppers ==
    <<"A", "B", "C", "D", "E", "F", "G", "H", "I", "J", "K", "L", "M", "N",
      "O", "P", "Q", "R", "S", "T", "U", "V", "W", "X", "Y", "Z">>

\* the regex class \s, which is also what str.strip() removes
IsSpace(c) == c \in {" ", "\n", "\t", "\r"}

\* the regex class [,.!?...] of lines 144-150
Punct == {",", ".", "!", "?", Ellipsis}

\* the regex class [.!?...] of line 137
Terminators == {".", "!", "?", Ellipsis}

\* the string literal '.!?...' of line 130
TerminatorString == <<".", "!", "?", Ellipsis>>

\* str.lower() on one character
LowerChar(c) ==
    IF \E i \in 1..Len(Uppers) : Uppers[i] = c
    THEN Lowers[CHOOSE i \in 1..Len(Uppers) : Uppers[i] = c]
    ELSE c

\* str.upper() on one character
UpperChar(c) ==
    IF \E i \in 1..Len(Lowers) : Lowers[i] = c
    THEN Uppers[CHOOSE i \in 1..Len(Lowers) : Lowers[i] = c]
    ELSE c

\* str.lower()
Lower(s) == [i \in 1..Len(s) |-> LowerChar(s[i])]

\* str.capitalize(): first character upper-cased, the rest lower-cased
Capitalize(s) ==
    [i \in 1..Len(s) |-> IF i = 1 THEN UpperChar(s[i]) ELSE LowerChar(s[i])]

\* the end of the maximal whitespace run that starts at i (s[i] is whitespace)
RECURSIVE SpaceRunEnd(_, _)
SpaceRunEnd(s, i) ==
    IF i < Len(s) /\ IsSpace(s[i + 1]) THEN SpaceRunEnd(s, i + 1) ELSE i

\* the end of the maximal non-whitespace run that starts at i
RECURSIVE WordRunEnd(_, _)
WordRunEnd(s, i) ==
    IF i < Len(s) /\ ~IsSpace(s[i + 1]) THEN WordRunEnd(s, i + 1) ELSE i

\* str.strip()
RECURSIVE LStrip(_)
LStrip(s) == IF s # <<>> /\ IsSpace(s[1]) THEN LStrip(Tail(s)) ELSE s

RECURSIVE RStrip(_)
RStrip(s) ==
    IF s # <<>> /\ IsSpace(s[Len(s)]) THEN RStrip(SubSeq(s, 1, Len(s) - 1)) ELSE s

Strip(s) == RStrip(LStrip(s))

\* Python's `x in y` on two strings: x occurs in y as a substring
IsSubstring(x, y) ==
    \E k \in 0..Len(y) :
        k + Len(x) <= Len(y) /\ SubSeq(y, k + 1, k + Len(x)) = x

-----------------------------------------------------------------------------
(* _apply_punctuation_and_spacing, lines 142-152 *)

\* re.sub(r'\s+([,.!?...])', r'\1', text): leftmost, non-overlapping
RECURSIVE RemoveSpaceBeforePunctFrom(_, _)
RemoveSpaceBeforePunctFrom(s, i) ==
    IF i > Len(s) THEN <<>>
    ELSE IF IsSpace(s[i])
         THEN LET j == SpaceRunEnd(s, i) IN
              IF j < Len(s) /\ s[j + 1] \in Punct
              THEN <<s[j + 1]>> \o RemoveSpaceBeforePunctFrom(s, j + 2)
              ELSE SubSeq(s, i, j) \o RemoveSpaceBeforePunctFrom(s, j + 1)
         ELSE <<s[i]>> \o RemoveSpaceBeforePunctFrom(s, i + 1)

RemoveSpaceBeforePunct(s) == RemoveSpaceBeforePunctFrom(s, 1)

\* line 147 without its (?!\s) lookahead
NeedsSpaceAfterAnySpace(s, i) ==
    i = Len(s) \/ s[i + 1] \notin Punct

\* the two negative lookaheads of line 147: what follows position i is neither
\* whitespace nor punctuation (the end of the string satisfies both)
NeedsSpaceAfter(s, i) ==
    i = Len(s) \/ (~IsSpace(s[i + 1]) /\ s[i + 1] \notin Punct)

\* re.sub(r'([,.!?...])(?!\s)(?![,.!?...])', r'\1 ', text)
RECURSIVE SpaceAfterPunctFrom(_, _)
SpaceAfterPunctFrom(s, i) ==
    IF i > Len(s) THEN <<>>
    ELSE IF s[i] \in Punct /\ NeedsSpaceAfter(s, i)
         THEN <<s[i], " ">> \o SpaceAfterPunctFrom(s, i + 1)
         ELSE <<s[i]>> \o SpaceAfterPunctFrom(s, i + 1)

SpaceAfterPunct(s) == SpaceAfterPunctFrom(s, 1)

\* re.sub(r'([,.!?...])\s+([,.!?...])', r'\1\2', text): leftmost, non-overlapping
RECURSIVE GluePunctFrom(_, _)
GluePunctFrom(s, i) ==
    IF i > Len(s) THEN <<>>
    ELSE IF s[i] \in Punct /\ i < Len(s) /\ IsSpace(s[i + 1])
         THEN LET j == SpaceRunEnd(s, i + 1) IN
              IF j < Len(s) /\ s[j + 1] \in Punct
              THEN <<s[i], s[j + 1]>> \o GluePunctFrom(s, j + 2)
              ELSE <<s[i]>> \o GluePunctFrom(s, i + 1)
         ELSE <<s[i]>> \o GluePunctFrom(s, i + 1)

GluePunct(s) == GluePunctFrom(s, 1)

_apply_punctuation_and_spacing(text) ==
    Strip(GluePunct(SpaceAfterPunct(RemoveSpaceBeforePunct(text))))

-----------------------------------------------------------------------------
(* _apply_no_uppercase, lines 124-140 *)

\* re.split(r'(?<=[.!?...])', text): a cut after every terminator, the end of
\* the string included (the last piece is then empty)
RECURSIVE SplitSentencesFrom(_, _, _)
SplitSentencesFrom(s, start, i) ==
    IF i > Len(s) THEN <<SubSeq(s, start, Len(s))>>
    ELSE IF s[i] \in Terminators
         THEN <<SubSeq(s, start, i)>> \o SplitSentencesFrom(s, i + 1, i + 1)
         ELSE SplitSentencesFrom(s, start, i + 1)

SplitSentences(s) == SplitSentencesFrom(s, 1, 1)

\* re.findall(r'\S+|\s+', sentence)
RECURSIVE FindTokensFrom(_, _)
FindTokensFrom(s, i) ==
    IF i > Len(s) THEN <<>>
    ELSE LET j == IF IsSpace(s[i]) THEN SpaceRunEnd(s, i) ELSE WordRunEnd(s, i)
         IN  <<SubSeq(s, i, j)>> \o FindTokensFrom(s, j + 1)

FindTokens(s) == FindTokensFrom(s, 1)

\* the test of line 130
CapitalizeHere(words, i) ==
    i = 1 \/ IsSubstring(Strip(words[i - 1]), TerminatorString)

RECURSIVE Join(_)
Join(parts) == IF parts = <<>> THEN <<>> ELSE Head(parts) \o Join(Tail(parts))

process_sentence(sentence) ==
    LET words == FindTokens(sentence) IN
    Join([i \in 1..Len(words) |->
            IF CapitalizeHere(words, i)
            THEN Capitalize(words[i])
            ELSE Lower(words[i])])

_apply_no_uppercase(text) ==
    LET sentences == SplitSentences(text) IN
    Join([k \in 1..Len(sentences) |-> process_sentence(sentences[k])])

-----------------------------------------------------------------------------
(* The dispatcher's collaborators and values *)

Threads == {1, 2}

\* the thread that runs the block pipeline
Main == CHOOSE t \in Threads : \A u \in Threads : t <= u

\* a name not bound yet
NoValue == <<"<unbound>">>

NoResult == [kind |-> "none", full_text |-> <<>>]

IgnoreText1 ==
    <<"F", "u", "l", "l", " ", "t", "e", "x", "t", " ", "n", "o", "t", " ",
      "f", "o", "u", "n", "d", " ", "i", "n", " ", "e", "x", "p", "e", "c",
      "t", "e", "d", " ", "s", "t", "r", "u", "c", "t", "u", "r", "e">>

IgnoreText2 ==
    <<"F", "u", "l", "l", " ", "t", "e", "x", "t", " ", "n", "o", "t", " ",
      "f", "o", "u", "n", "d", "(", "o", "r", " ", "L", "e", "n", "s", " ",
      "c", "o", "u", "l", "d", " ", "n", "o", "t", " ", "r", "e", "c", "o",
      "g", "n", "i", "z", "e", " ", "i", "t", ")">>

\* ignore_texts, lines 95-98
ignore_texts == {IgnoreText1, IgnoreText2}

\* a text the stub recognizer reads off an image: "hI\nyou ."
SampleText == <<"h", "I", "\n", "y", "o", "u", " ", ".">>

\* what self.api.process_image may do: raise, return a result without the
\* 'full_text' key, or return a result with a text
Responses ==
    {[kind |-> "raise", full_text |-> <<>>],
     [kind |-> "malformed", full_text |-> <<>>]}
    \cup {[kind |-> "ok", full_text |-> t] :
            t \in ignore_texts \cup {SampleText}}

\* params['delay']['value']: a number of ticks, or a value float() rejects
DelayValues ==
    {[numeric |-> TRUE, value |-> d] : d \in 0..MaxDelay}
    \cup {[numeric |-> FALSE, value |-> 0]}

ParamValues ==
    [delay : DelayValues,
     newline_handling : {"preserve", "remove"},
     no_uppercase : BOOLEAN]

\* the request_delay property, lines 38-40: float() raises on a value that is
\* no number
RequestDelayRaises == ~params.delay.numeric

request_delay == params.delay.value

\* time.time() when the object is constructed: long after the epoch
StartTime == MaxDelay + 1

TimeLimit == StartTime + MaxTicks

\* every blk.xyxy with its corners on the image's pixel grid, edges included
Boxes == (0..ImW) \X (0..ImH) \X (0..ImW) \X (0..ImH)

\* no box unpacked
NoBox == <<0, 0, 0, 0>>

\* line 67 with x2 <= im_w for x2 < im_w
ValidBoxUpToEdge(b) ==
    /\ b[4] < ImH /\ b[3] <= ImW
    /\ b[1] > 0 /\ b[2] > 0
    /\ b[1] < b[3] /\ b[2] < b[4]

\* the test of line 67, on (x1, y1, x2, y2)
ValidBox(b) ==
    /\ b[4] < ImH /\ b[3] < ImW
    /\ b[1] > 0 /\ b[2] > 0
    /\ b[1] < b[3] /\ b[2] < b[4]

\* img[y1:y2, x1:x2].size, line 68
CropSize(b) == (b[4] - b[2]) * (b[3] - b[1])

\* blk.text = [''], line 75
EmptyList == [kind |-> "list", val |-> << <<>> >>]

UnsetText == [kind |-> "unset", val |-> <<>>]

StrText(s) == [kind |-> "str", val |-> s]

\* full_text.replace('\n', ' '), line 103
ReplaceNewline(s) == [i \in 1..Len(s) |-> IF s[i] = "\n" THEN " " ELSE s[i]]

\* lines 99-114 on a result that has a full_text
Normalize(full_text) ==
    LET t1 == IF params.newline_handling = "remove"
              THEN ReplaceNewline(full_text) ELSE full_text
        t2 == _apply_punctuation_and_spacing(t1)
    IN  IF params.no_uppercase THEN _apply_no_uppercase(t2) ELSE t2

\* lines 91-122 without the test of line 99
OcrReturnNoIgnore(r) ==
    IF r.kind # "ok" THEN <<>> ELSE Normalize(r.full_text)

\* what ocr returns for a response, lines 91-122: the except clause of line
\* 119 turns an exception of process_image, and the KeyError of line 99, into ''
OcrReturn(r) ==
    IF r.kind # "ok" THEN <<>>
    ELSE IF r.full_text \in ignore_texts THEN <<>>
    ELSE Normalize(r.full_text)

-----------------------------------------------------------------------------
(* The state after construction, lines 54-57 *)

InitDispatcher ==
    /\ last_request_time = 0
    /\ now = StartTime
    /\ calls = <<>>
    /\ pc = [t \in Threads |-> "idle"]
    /\ frame = [t \in Threads |-> "none"]
    /\ img = [t \in Threads |-> 0]
    /\ current_time = [t \in Threads |-> 0]
    /\ seen = [t \in Threads |-> 0]
    /\ wake = [t \in Threads |-> 0]
    /\ result = [t \in Threads |-> NoResult]
    /\ ret = [t \in Threads |-> NoValue]
    /\ escaped = [t \in Threads |-> FALSE]
    /\ n_blk = 0
    /\ idx = 0
    /\ xyxy = NoBox
    /\ blk_text = <<>>
    /\ n_ops = 0
    /\ mutex = 0

InitNoText ==
    /\ input = <<>>
    /\ prev = <<>>
    /\ txt = <<>>
    /\ op = "input"

-----------------------------------------------------------------------------
(* ocr and _respect_delay, one action per step of a thread *)

\* entering ocr: the locals of the call are fresh
EnterOcr(t, size) ==
    /\ img' = [img EXCEPT ![t] = size]
    /\ current_time' = [current_time EXCEPT ![t] = 0]
    /\ seen' = [seen EXCEPT ![t] = 0]
    /\ wake' = [wake EXCEPT ![t] = 0]
    /\ result' = [result EXCEPT ![t] = NoResult]
    /\ ret' = [ret EXCEPT ![t] = NoValue]
    /\ pc' = [pc EXCEPT ![t] = "respect_delay"]

\* ocr_img(img), lines 77-80
CallOcrImg(t, size) ==
    /\ pc[t] = "idle"
    /\ n_ops < MaxOps
    /\ n_ops' = n_ops + 1
    /\ frame' = [frame EXCEPT ![t] = "ocr_img"]
    /\ escaped' = [escaped EXCEPT ![t] = FALSE]
    /\ EnterOcr(t, size)
    /\ UNCHANGED <<textvars, blkvars, params, last_request_time, now, calls,
                   use_lock>>

\* _respect_delay, lines 155-156
ReadClock(t) ==
    /\ pc[t] = "respect_delay"
    /\ current_time' = [current_time EXCEPT ![t] = now]
    /\ seen' = [seen EXCEPT ![t] = last_request_time]
    /\ pc' = [pc EXCEPT ![t] = "check_delay"]
    /\ UNCHANGED <<textvars, blkvars, params, last_request_time, now, calls,
                   frame, img, wake, result, ret, escaped, n_ops, use_lock>>

\* _respect_delay, line 159, when self.request_delay raises: _respect_delay
\* is called on line 85, before the try of line 86
DelayRaises(t) ==
    /\ pc[t] = "check_delay"
    /\ RequestDelayRaises
    /\ pc' = [pc EXCEPT ![t] = "raised"]
    /\ UNCHANGED <<textvars, blkvars, params, last_request_time, now, calls,
                   frame, img, current_time, seen, wake, result, ret, escaped,
                   n_ops, use_lock>>

\* line 160 sleeping for the time already elapsed
SleepTimeElapsed(t) == current_time[t] - seen[t]

\* sleep_time, line 160
SleepTime(t) == request_delay - (current_time[t] - seen[t])

\* _respect_delay, lines 159-163: time.sleep(sleep_time) begins
StartSleep(t) ==
    /\ pc[t] = "check_delay"
    /\ ~RequestDelayRaises
    /\ current_time[t] - seen[t] < request_delay
    /\ wake' = [wake EXCEPT ![t] = now + SleepTime(t)]
    /\ pc' = [pc EXCEPT ![t] = "sleeping"]
    /\ UNCHANGED <<textvars, blkvars, params, last_request_time, now, calls,
                   frame, img, current_time, seen, result, ret, escaped,
                   n_ops, use_lock>>

\* _respect_delay, line 159, the test is false
NoSleep(t) ==
    /\ pc[t] = "check_delay"
    /\ ~RequestDelayRaises
    /\ ~(current_time[t] - seen[t] < request_delay)
    /\ pc' = [pc EXCEPT ![t] = "stamp"]
    /\ UNCHANGED <<textvars, blkvars, params, last_request_time, now, calls,
                   frame, img, current_time, seen, wake, result, ret, escaped,
                   n_ops, use_lock>>

\* time.sleep returns, line 163: not before the time asked for has passed
WakeUp(t) ==
    /\ pc[t] = "sleeping"
    /\ now >= wake[t]
    /\ pc' = [pc EXCEPT ![t] = "stamp"]
    /\ UNCHANGED <<textvars, blkvars, params, last_request_time, now, calls,
                   frame, img, current_time, seen, wake, result, ret, escaped,
                   n_ops, use_lock>>

\* _respect_delay without the assignment of line 164
StampNotWritten(t) ==
    /\ pc[t] = "stamp"
    /\ pc' = [pc EXCEPT ![t] = "try"]
    /\ UNCHANGED <<textvars, blkvars, params, last_request_time, now, calls,
                   frame, img, current_time, seen, wake, result, ret, escaped,
                   n_ops, use_lock>>

\* _respect_delay, line 164
Stamp(t) ==
    /\ pc[t] = "stamp"
    /\ last_request_time' = now
    /\ pc' = [pc EXCEPT ![t] = "try"]
    /\ UNCHANGED <<textvars, blkvars, params, now, calls, frame, img,
                   current_time, seen, wake, result, ret, escaped, n_ops,
                   use_lock>>

\* ocr, lines 87 and 115-118: the image is empty
EmptyImage(t) ==
    /\ pc[t] = "try"
    /\ ~(img[t] > 0)
    /\ ret' = [ret EXCEPT ![t] = <<>>]
    /\ pc' = [pc EXCEPT ![t] = "return"]
    /\ UNCHANGED <<textvars, blkvars, params, last_request_time, now, calls,
                   frame, img, current_time, seen, wake, result, escaped,
                   n_ops, use_lock>>

\* ocr, line 90, cv2.imencode raises: caught on line 119
EncodeFails(t) ==
    /\ pc[t] = "try"
    /\ img[t] > 0
    /\ result' = [result EXCEPT ![t] = [kind |-> "encode_error",
                                        full_text |-> <<>>]]
    /\ ret' = [ret EXCEPT ![t] = <<>>]
    /\ pc' = [pc EXCEPT ![t] = "return"]
    /\ UNCHANGED <<textvars, blkvars, params, last_request_time, now, calls,
                   frame, img, current_time, seen, wake, escaped, n_ops,
                   use_lock>>

\* ocr, lines 90-91: the image is encoded and process_image is called
ProcessImage(t) ==
    /\ pc[t] = "try"
    /\ img[t] > 0
    /\ calls' = Append(calls, [time |-> now, by |-> t, seen |-> seen[t]])
    /\ pc' = [pc EXCEPT ![t] = "waiting"]
    /\ UNCHANGED <<textvars, blkvars, params, last_request_time, now, frame,
                   img, current_time, seen, wake, result, ret, escaped, n_ops,
                   use_lock>>

\* ocr, lines 91-122: process_image answers r and ocr works out what to return
Response(t, r) ==
    /\ pc[t] = "waiting"
    /\ result' = [result EXCEPT ![t] = r]
    /\ ret' = [ret EXCEPT ![t] = OcrReturn(r)]
    /\ pc' = [pc EXCEPT ![t] = "return"]
    /\ UNCHANGED <<textvars, blkvars, params, last_request_time, now, calls,
                   frame, img, current_time, seen, wake, escaped, n_ops,
                   use_lock>>

\* leaving ocr: its locals are gone
LeaveOcr(t) ==
    /\ img' = [img EXCEPT ![t] = 0]
    /\ current_time' = [current_time EXCEPT ![t] = 0]
    /\ seen' = [seen EXCEPT ![t] = 0]
    /\ wake' = [wake EXCEPT ![t] = 0]
    /\ result' = [result EXCEPT ![t] = NoResult]
    /\ ret' = [ret EXCEPT ![t] = NoValue]

\* ocr_img returns what ocr returned, line 80
ReturnOcrImg(t) ==
    /\ pc[t] = "return"
    /\ frame[t] = "ocr_img"
    /\ frame' = [frame EXCEPT ![t] = "none"]
    /\ pc' = [pc EXCEPT ![t] = "idle"]
    /\ LeaveOcr(t)
    /\ UNCHANGED <<textvars, blkvars, params, last_request_time, now, calls,
                   escaped, n_ops, use_lock>>

\* an exception that no except clause catches leaves ocr and then ocr_img or
\* _ocr_blk_list (whose loop has no try), and reaches the caller
Propagate(t) ==
    /\ pc[t] = "raised"
    /\ escaped' = [escaped EXCEPT ![t] = TRUE]
    /\ frame' = [frame EXCEPT ![t] = "none"]
    /\ pc' = [pc EXCEPT ![t] = "idle"]
    /\ LeaveOcr(t)
    /\ xyxy' = NoBox
    /\ UNCHANGED <<textvars, n_blk, idx, blk_text, params, last_request_time,
                   now, calls, n_ops, use_lock>>

\* the clock advances by one tick
Tick ==
    /\ now < TimeLimit
    /\ now' = now + 1
    /\ UNCHANGED <<textvars, blkvars, params, last_request_time, calls, pc,
                   frame, img, current_time, seen, wake, result, ret, escaped,
                   n_ops, use_lock>>

\* where a thread lets time pass: between operations, in time.sleep, and
\* while process_image is on the network
Blocking(t) == pc[t] \in {"idle", "sleeping", "waiting"}

-----------------------------------------------------------------------------
(* _ocr_blk_list, lines 59-75 *)

\* _ocr_blk_list(img, blk_list) is called with n blocks
CallOcrBlkList(n) ==
    /\ pc[Main] = "idle"
    /\ n_ops < MaxOps
    /\ n_ops' = n_ops + 1
    /\ frame' = [frame EXCEPT ![Main] = "_ocr_blk_list"]
    /\ escaped' = [escaped EXCEPT ![Main] = FALSE]
    /\ pc' = [pc EXCEPT ![Main] = "for_blk"]
    /\ n_blk' = n
    /\ idx' = 1
    /\ blk_text' = [i \in 1..n |-> UnsetText]
    /\ UNCHANGED <<textvars, xyxy, params, last_request_time, now, calls, img,
                   current_time, seen, wake, result, ret, use_lock>>

\* lines 63-64: the loop takes the next block and unpacks its box
NextBlk(box) ==
    /\ pc[Main] = "for_blk"
    /\ idx <= n_blk
    /\ xyxy' = box
    /\ pc' = [pc EXCEPT ![Main] = "test"]
    /\ UNCHANGED <<textvars, n_blk, idx, blk_text, params, last_request_time,
                   now, calls, frame, img, current_time, seen, wake, result,
                   ret, escaped, n_ops, use_lock>>

\* lines 67-71: the box passes the test and its crop goes to ocr
BlkValid ==
    /\ pc[Main] = "test"
    /\ ValidBox(xyxy)
    /\ EnterOcr(Main, CropSize(xyxy))
    /\ UNCHANGED <<textvars, blkvars, params, last_request_time, now, calls,
                   frame, escaped, n_ops, use_lock>>

\* lines 67 and 72-75: the box fails the test; the loop goes on, and the
\* names x1, y1, x2, y2 are not read again before line 64 rebinds them
BlkInvalid ==
    /\ pc[Main] = "test"
    /\ ~ValidBox(xyxy)
    /\ blk_text' = [blk_text EXCEPT ![idx] = EmptyList]
    /\ idx' = idx + 1
    /\ xyxy' = NoBox
    /\ pc' = [pc EXCEPT ![Main] = "for_blk"]
    /\ UNCHANGED <<textvars, n_blk, params, last_request_time, now, calls,
                   frame, img, current_time, seen, wake, result, ret, escaped,
                   n_ops, use_lock>>

\* line 71: blk.text = self.ocr(cropped_img), and the loop goes on
AssignBlkText ==
    /\ pc[Main] = "return"
    /\ frame[Main] = "_ocr_blk_list"
    /\ blk_text' = [blk_text EXCEPT ![idx] = StrText(ret[Main])]
    /\ idx' = idx + 1
    /\ xyxy' = NoBox
    /\ pc' = [pc EXCEPT ![Main] = "for_blk"]
    /\ LeaveOcr(Main)
    /\ UNCHANGED <<textvars, n_blk, params, last_request_time, now, calls,
                   frame, escaped, n_ops, use_lock>>

\* line 63: the list is exhausted and _ocr_blk_list returns
BlkListDone ==
    /\ pc[Main] = "for_blk"
    /\ idx > n_blk
    /\ frame' = [frame EXCEPT ![Main] = "none"]
    /\ pc' = [pc EXCEPT ![Main] = "idle"]
    /\ UNCHANGED <<textvars, blkvars, params, last_request_time, now, calls,
                   img, current_time, seen, wake, result, ret, escaped, n_ops,
                   use_lock>>

-----------------------------------------------------------------------------
(* One caller: ocr_img called again and again on one object.  Every value   *)
(* of the delay parameter; the normalizer's options at their defaults       *)
(* (lines 27 and 32) or both switched.                                      *)

OptionValues ==
    {p \in ParamValues :
        (p.newline_handling = "remove") = p.no_uppercase}

Init ==
    /\ InitNoText
    /\ InitDispatcher
    /\ params \in OptionValues
    /\ use_lock = FALSE

Next ==
    \/ \E size \in {0, 1} : CallOcrImg(Main, size) /\ UNCHANGED mutex
    \/ ReadClock(Main) /\ UNCHANGED mutex
    \/ DelayRaises(Main) /\ UNCHANGED mutex
    \/ StartSleep(Main) /\ UNCHANGED mutex
    \/ NoSleep(Main) /\ UNCHANGED mutex
    \/ WakeUp(Main) /\ UNCHANGED mutex
    \/ Stamp(Main) /\ UNCHANGED mutex
    \/ EmptyImage(Main) /\ UNCHANGED mutex
    \/ EncodeFails(Main) /\ UNCHANGED mutex
    \/ ProcessImage(Main) /\ UNCHANGED mutex
    \/ \E r \in Responses : Response(Main, r) /\ UNCHANGED mutex
    \/ ReturnOcrImg(Main) /\ UNCHANGED mutex
    \/ Propagate(Main) /\ UNCHANGED mutex
    \/ Blocking(Main) /\ Tick /\ UNCHANGED mutex

Spec == Init /\ [][Next]_vars

-----------------------------------------------------------------------------
(* The block pipeline: _ocr_blk_list called once on a new object, the delay  *)
(* at its default of one tick (line 14) or a value that is no number.       *)

InitBlk ==
    /\ InitNoText
    /\ InitDispatcher
    /\ params \in {p \in ParamValues :
                     /\ p.delay.numeric => p.delay.value = 1
                     /\ p.newline_handling = "preserve"
                     /\ ~p.no_uppercase}
    /\ use_lock = FALSE

NextBlock ==
    \/ \E n \in 1..MaxBlocks :
          n_ops = 0 /\ CallOcrBlkList(n) /\ UNCHANGED mutex
    \/ \E box \in Boxes : NextBlk(box) /\ UNCHANGED mutex
    \/ BlkValid /\ UNCHANGED mutex
    \/ BlkInvalid /\ UNCHANGED mutex
    \/ AssignBlkText /\ UNCHANGED mutex
    \/ BlkListDone /\ UNCHANGED mutex
    \/ ReadClock(Main) /\ UNCHANGED mutex
    \/ DelayRaises(Main) /\ UNCHANGED mutex
    \/ StartSleep(Main) /\ UNCHANGED mutex
    \/ NoSleep(Main) /\ UNCHANGED mutex
    \/ WakeUp(Main) /\ UNCHANGED mutex
    \/ Stamp(Main) /\ UNCHANGED mutex
    \/ EncodeFails(Main) /\ UNCHANGED mutex
    \/ ProcessImage(Main) /\ UNCHANGED mutex
    \/ \E r \in Responses : Response(Main, r) /\ UNCHANGED mutex
    \/ Propagate(Main) /\ UNCHANGED mutex
    \/ Blocking(Main) /\ Tick /\ UNCHANGED mutex

SpecBlk == InitBlk /\ [][NextBlock]_vars

-----------------------------------------------------------------------------
(* Several callers sharing one object, each calling ocr_img on an image     *)
(* that is not empty and that the recognizer reads.  With use_lock they run *)
(* _respect_delay under a mutex of their own, taken before line 155 and     *)
(* released after line 164.                                                 *)

InitShared ==
    /\ InitNoText
    /\ InitDispatcher
    /\ params \in {p \in ParamValues :
                     /\ p.delay.numeric
                     /\ p.newline_handling = "preserve"
                     /\ ~p.no_uppercase}
    /\ use_lock \in BOOLEAN

MutexFree == use_lock => mutex = 0

TakeMutex(t) == mutex' = IF use_lock THEN t ELSE mutex

ReleaseMutex == mutex' = 0

NextShared ==
    \/ \E t \in Threads : CallOcrImg(t, 1) /\ UNCHANGED mutex
    \/ \E t \in Threads : MutexFree /\ ReadClock(t) /\ TakeMutex(t)
    \/ \E t \in Threads : StartSleep(t) /\ UNCHANGED mutex
    \/ \E t \in Threads : NoSleep(t) /\ UNCHANGED mutex
    \/ \E t \in Threads : WakeUp(t) /\ UNCHANGED mutex
    \/ \E t \in Threads : Stamp(t) /\ ReleaseMutex
    \/ \E t \in Threads : EncodeFails(t) /\ UNCHANGED mutex
    \/ \E t \in Threads : ProcessImage(t) /\ UNCHANGED mutex
    \/ \E t \in Threads :
          Response(t, [kind |-> "ok", full_text |-> SampleText])
          /\ UNCHANGED mutex
    \/ \E t \in Threads : ReturnOcrImg(t) /\ UNCHANGED mutex
    \/ (\E t \in Threads : Blocking(t)) /\ Tick /\ UNCHANGED mutex

SpecShared == InitShared /\ [][NextShared]_vars

-----------------------------------------------------------------------------
(* The normalizer on its own: a string is handed in and the transforms are  *)
(* applied in the order ocr applies them (lines 106-109).                   *)

Alphabet == {"a", "A", " ", "\n", ".", ","}

RECURSIVE StringsUpTo(_)
StringsUpTo(n) ==
    IF n = 0 THEN {<<>>}
    ELSE LET shorter == StringsUpTo(n - 1) IN
         shorter \cup {Append(s, c) : s \in {x \in shorter : Len(x) = n - 1},
                                      c \in Alphabet}

SentenceCaseInput ==
    <<"h", "e", "l", "l", "o", " ", "w", "o", "r", "l", "d", ".", " ", "T",
      "H", "I", "S", " ", "I", "S", " ", "L", "O", "U", "D", "!", " ", "a",
      "r", "e", " ", "y", "o", "u", " ", "S", "U", "R", "E", "?">>

SentenceCaseExpected ==
    <<"H", "e", "l", "l", "o", " ", "w", "o", "r", "l", "d", ".", " ", "T",
      "h", "i", "s", " ", "i", "s", " ", "l", "o", "u", "d", "!", " ", "A",
      "r", "e", " ", "y", "o", "u", " ", "s", "u", "r", "e", "?">>

CleanupInput ==
    <<"W", "a", "i", "t", " ", " ", ",", " ", "w", "h", "a", "t", " ", "?",
      "!", " ", " ", "R", "e", "a", "l", "l", "y", Ellipsis>>

CleanupExpected ==
    <<"W", "a", "i", "t", ",", " ", "w", "h", "a", "t", "?", "!", " ", "R",
      "e", "a", "l", "l", "y", Ellipsis>>

TextInputs == StringsUpTo(MaxLen) \cup {SentenceCaseInput, CleanupInput}

InitText ==
    /\ InitDispatcher
    /\ params = [delay |-> [numeric |-> TRUE, value |-> 1],
                 newline_handling |-> "preserve",
                 no_uppercase |-> FALSE]
    /\ use_lock = FALSE
    /\ input \in TextInputs
    /\ prev = input
    /\ txt = input
    /\ op = "input"

\* full_text = self._apply_punctuation_and_spacing(full_text), line 106
ApplyPunctuationAndSpacing ==
    /\ op \in {"input", "punct"}
    /\ prev' = txt
    /\ txt' = _apply_punctuation_and_spacing(txt)
    /\ op' = IF op = "input" THEN "punct" ELSE "punct2"
    /\ UNCHANGED <<input, dispvars, blkvars, n_ops, use_lock, mutex>>

\* full_text = self._apply_no_uppercase(full_text), line 109
ApplyNoUppercase ==
    /\ op \in {"input", "punct"}
    /\ prev' = txt
    /\ txt' = _apply_no_uppercase(txt)
    /\ op' = "case"
    /\ UNCHANGED <<input, dispvars, blkvars, n_ops, use_lock, mutex>>

NextText ==
    \/ ApplyPunctuationAndSpacing
    \/ ApplyNoUppercase

SpecText == InitText /\ [][NextText]_vars

-----------------------------------------------------------------------------
(* Properties *)

\* the boxes the region validator is to reject: degenerate or inverted, a
\* coordinate at or below zero, or touching or passing the right or bottom edge
RejectedBox(b) ==
    \/ b[1] >= b[3] \/ b[2] >= b[4]
    \/ \E k \in 1..4 : b[k] <= 0
    \/ b[3] >= ImW \/ b[4] >= ImH

\* C1: when the pipeline is at a region whose box is degenerate, has a
\* coordinate <= 0 or reaches the image's right or bottom edge, its next step
\* sets that region's text to [''] and moves on to the next region: no request
\* is logged by the recognizer and last_request_time is left as it was.
C1_InvalidRegionSkipped ==
    [][(pc[Main] = "test" /\ RejectedBox(xyxy))
        => /\ blk_text'[idx].kind = "list"
           /\ blk_text'[idx].val = << <<>> >>
           /\ idx' = idx + 1
           /\ pc'[Main] = "for_blk"
           /\ calls' = calls
           /\ last_request_time' = last_request_time]_vars

\* C1 witness: a run of the pipeline has skipped a region, and the recognizer
\* and the rate limiter are as they were at construction.
C1_Witness ==
    /\ frame[Main] = "none"
    /\ n_blk > 0
    /\ \A i \in 1..n_blk : blk_text[i].kind = "list"
    /\ calls = <<>>
    /\ last_request_time = 0

\* C2: with a numeric delay, any two consecutive process_image calls are at
\* least request_delay apart, and a thread sleeps in _respect_delay only when
\* an earlier call has set last_request_time (a fresh object does not wait).
C2_RequestsSpaced ==
    params.delay.numeric =>
        /\ \A i \in 2..Len(calls) :
              calls[i].time - calls[i - 1].time >= request_delay
        /\ \A t \in Threads : pc[t] = "sleeping" => seen[t] # 0

\* C2 witness: the second request went out exactly one positive delay after
\* the first.
C2_Witness ==
    /\ params.delay.numeric
    /\ request_delay > 0
    /\ Len(calls) >= 2
    /\ calls[2].time - calls[1].time = request_delay

\* C3: when ocr is about to return for an empty image, it returns '', it has
\* not slept, and last_request_time is what it was when ocr was entered.
C3_EmptyImageKeepsDelay ==
    \A t \in Threads :
        (pc[t] = "return" /\ img[t] = 0)
            => /\ ret[t] = <<>>
               /\ wake[t] = 0
               /\ last_request_time = seen[t]

\* what the recognizer or the encoder did that must end in ''
FailedOrNotFound(r) ==
    \/ r.kind \in {"encode_error", "raise"}
    \/ r.kind = "ok" /\ r.full_text \in {IgnoreText1, IgnoreText2}

\* C4: once encoding or process_image has raised for a non-empty image, or
\* process_image has answered one of the two 'not found' phrases, ocr is
\* returning '' and no exception has left it.
C4_FailureGivesEmpty ==
    \A t \in Threads :
        FailedOrNotFound(result[t])
            => /\ pc[t] = "return"
               /\ ret[t] = <<>>
               /\ ~escaped[t]

\* C4 witness: process_image raised and ocr is returning ''.
C4_Witness ==
    \E t \in Threads :
        /\ result[t].kind = "raise"
        /\ img[t] > 0
        /\ pc[t] = "return"
        /\ ret[t] = <<>>

\* C5: while _ocr_blk_list runs, the regions before the loop's position have
\* their text and those from it on have none yet; and once it is over, every
\* region has its text.
C5_EveryRegionAssigned ==
    /\ frame[Main] = "_ocr_blk_list" =>
          \A i \in 1..n_blk : (blk_text[i].kind # "unset") = (i < idx)
    /\ (frame[Main] = "none" /\ n_blk > 0) =>
          \A i \in 1..n_blk : blk_text[i].kind # "unset"

\* the last position before i that holds no whitespace, 0 when there is none
RECURSIVE PrevNonSpace(_, _)
PrevNonSpace(s, i) ==
    IF i = 1 THEN 0
    ELSE IF IsSpace(s[i - 1]) THEN PrevNonSpace(s, i - 1) ELSE i - 1

\* position i of s starts the first word of a sentence: it is not whitespace,
\* and going back over whitespace from it reaches a terminator or the start
OpensSentence(s, i) ==
    /\ ~IsSpace(s[i])
    /\ LET j == PrevNonSpace(s, i) IN j = 0 \/ s[j] \in Terminators

\* sentence case as stated: the first word of a sentence capitalized, every
\* other word lower-cased, whitespace and punctuation kept
SentenceCase(s) ==
    [i \in 1..Len(s) |->
        IF IsSpace(s[i]) THEN s[i]
        ELSE IF OpensSentence(s, i)
             THEN UpperChar(s[i])
             ELSE LowerChar(s[i])]

\* C6: _apply_no_uppercase gives the sentence case of its argument, and turns
\* "hello world. THIS IS LOUD! are you SURE?" into
\* "Hello world. This is loud! Are you sure?".
C6_SentenceCase ==
    op = "case" =>
        /\ txt = SentenceCase(prev)
        /\ prev = SentenceCaseInput => txt = SentenceCaseExpected

\* C7: the output of _apply_punctuation_and_spacing has no whitespace at
\* either end and none right before , . ! ? or the ellipsis; after such a mark
\* that is followed by anything but another mark comes exactly one whitespace
\* character; and "Wait  , what ?!  Really..." becomes "Wait, what?! Really...".
C7_CleanShape ==
    op \in {"punct", "punct2"} =>
        /\ txt # <<>> => ~IsSpace(txt[1]) /\ ~IsSpace(txt[Len(txt)])
        /\ \A i \in 2..Len(txt) : txt[i] \in Punct => ~IsSpace(txt[i - 1])
        /\ \A i \in 1..Len(txt) :
              (txt[i] \in Punct /\ i < Len(txt) /\ txt[i + 1] \notin Punct)
                  => /\ IsSpace(txt[i + 1])
                     /\ i + 2 <= Len(txt) => ~IsSpace(txt[i + 2])
        /\ prev = CleanupInput => txt = CleanupExpected

\* C8: _apply_punctuation_and_spacing applied to its own output gives that
\* output again.
C8_CleanIdempotent ==
    op = "punct2" => txt = prev

\* C8 witness: the first application changed the string, the second did not.
C8_Witness ==
    /\ op = "punct2"
    /\ prev # input
    /\ txt = prev

\* C9: no exception leaves ocr, ocr_img or _ocr_blk_list.
C9_NothingEscapes ==
    \A t \in Threads : pc[t] # "raised" /\ ~escaped[t]

\* two requests by different threads that both read the same
\* last_request_time and went out less than request_delay apart
RaceHappened ==
    \E i, j \in 1..Len(calls) :
        /\ i < j
        /\ calls[i].by # calls[j].by
        /\ calls[i].seen = calls[j].seen
        /\ calls[j].time - calls[i].time < request_delay

\* C10: when the callers run _respect_delay under a mutex, no two of their
\* requests have read the same last_request_time and gone out less than
\* request_delay apart.
C10_NoRaceUnderMutex ==
    use_lock => ~RaceHappened

\* C10 witness: without the mutex, two threads have read the same
\* last_request_time and sent their requests less than request_delay apart.
C10_Witness ==
    ~use_lock /\ RaceHappened

====
